---- MODULE Spec2Model ----
(***************************************************************************)
(* Model of the audio capture engine of OpenLiveCaption                    *)
(* (src/src/audio/audio_capture.py, class AudioCaptureEngine): the capture *)
(* session life cycle, the reconnection supervisor of _capture_loop, the   *)
(* platform read loops, device disconnection handling and stop_capture.    *)
(*                                                                         *)
(* Amplitudes and levels are integers in units of 1/100 (0.01 = 1,         *)
(* 1.0 = 100).  Time is in whole seconds.  Python's None is the value -1   *)
(* for device ids, thread references and timestamps (all of which are      *)
(* non-negative otherwise) and the string "none" for callbacks.            *)
(*                                                                         *)
(* Callbacks supplied by the application (on_chunk, on_error) are taken to *)
(* return promptly and not to raise; the calls a step makes are recorded   *)
(* in `out`.                                                               *)
(***************************************************************************)
EXTENDS Integers, Sequences, FiniteSets, TLC

None == -1

\* ---- bounds of the model ------------------------------------------------
MaxThreads == 1          \* capture threads alive at the same time
MaxTime == 4             \* seconds the clock may advance
MaxPending == 1          \* blocks the backend buffers between two polls
MaxSecThreads == 1       \* secondary capture threads alive at the same time
MaxQueue == 2            \* chunks held in one mixer queue
MaxFailures == 6         \* the failure count of a session saturates here
MaxBlocks == 3           \* blocks one source enqueues in a recorded session

\* ---- program constants --------------------------------------------------
max_reconnect_attempts == 5
max_consecutive_errors == 10
vad_threshold == 1
silence_limit == 3
level_max == 100

\* device 1 is built in, device 0 can be unplugged and plugged in again
DeviceIds == {0, 1}
Removable == {0}
Callbacks == {"cbA", "cbB"}
\* the application registers on_chunk together with on_error, or alone
Registrations == {[callback |-> "cbA", error_callback |-> "errA"],
                  [callback |-> "cbB", error_callback |-> "none"]}
Chunks == {<<0>>, <<50>>}
\* identities of capture threads; the specifications differ in how many of
\* them may be alive at once (MaxThreads, or one more)
Threads == 1..(MaxThreads + 1)
SecThreads == 1..MaxSecThreads
Caller == 0

VARIABLES
    self,                \* the AudioCaptureEngine instance (its fields)
    pc,                  \* position of every capture thread
    stream_active,       \* threads whose stream object is open
    failures,            \* exceptions that reached _capture_loop since the
                         \* last start or the last successful stream open
    spc,                 \* position of every secondary capture thread
    sec_active,          \* secondary threads whose stream object is open
    sec_device,          \* the device_id argument of every secondary thread
    cpc,                 \* position of the calling (application) thread
    csave,               \* locals of the call in progress on the caller
    out,                 \* callbacks invoked and value returned by the last step
    devices,             \* device ids the backend currently enumerates
    platform,            \* sys.platform, "win32" or "unix"
    backend_available,   \* PYAUDIO_AVAILABLE / SOUNDDEVICE_AVAILABLE
    now,                 \* time.time()
    hist,                \* what a multi-source session enqueued and delivered,
                         \* or the chunks pushed and the windows returned
                         \* since the last reset (s: the chunks pushed
                         \* before it)
    transcription_engine \* the TranscriptionEngine instance (its fields)

vars == <<self, pc, stream_active, failures, spc,
          sec_active, sec_device, cpc, csave, out, devices, platform,
          backend_available, now, hist, transcription_engine>>

secs == <<spc, sec_active, sec_device>>
call == <<cpc, csave>>
world == <<devices, platform, backend_available, now, transcription_engine>>
env == <<devices, platform, backend_available, now, hist,
         transcription_engine>>

\* ---- AudioCaptureEngine.__init__ ----------------------------------------
EngineInit ==
    [ is_capturing |-> FALSE,
      capture_thread |-> None,
      stop_event |-> FALSE,
      callback |-> "none",
      stream |-> None,
      current_device_id |-> None,
      current_audio_level |-> 0,
      silence_start_time |-> None,
      is_paused |-> FALSE,
      reconnect_attempts |-> 0,
      error_callback |-> "none",
      secondary_stream |-> None,
      secondary_device_id |-> None,
      secondary_thread |-> None,
      secondary_stop_event |-> FALSE,
      primary_buffer |-> <<>>,
      secondary_buffer |-> <<>>,
      vad_threshold |-> vad_threshold ]    \* self.config.vad_threshold

NoSave == [op |-> "none", device_id |-> None, saved_callback |-> "none"]

\* TranscriptionEngine.__init__, lines 56-62; model is TRUE when a Whisper
\* model is loaded (the constructor raises when the load fails)
TranscriptionInit ==
    [ model_name |-> "tiny",
      model |-> TRUE,
      audio_buffer |-> <<>>,
      chunk_index |-> 0 ]

\* the record of a multi-source session: the blocks primary_callback appended
\* (p), the blocks the secondary thread appended (s), the mixed blocks passed
\* to the callback (m); nothing is recorded unless `on`
NoHist == [on |-> FALSE, p |-> <<>>, s |-> <<>>, m |-> <<>>]

Init ==
    /\ self = EngineInit
    /\ pc = [t \in Threads |-> "none"]
    /\ stream_active = {}
    /\ failures = 0
    /\ spc = [t \in SecThreads |-> "none"]
    /\ sec_active = {}
    /\ sec_device = [t \in SecThreads |-> None]
    /\ cpc = "idle"
    /\ csave = NoSave
    /\ out = <<>>
    /\ devices \in {d \in SUBSET DeviceIds : DeviceIds \ Removable \subseteq d}
    /\ platform \in {"win32", "unix"}
    /\ backend_available \in BOOLEAN
    /\ now = 0
    /\ hist = NoHist
    /\ transcription_engine = TranscriptionInit

\* ---- helpers --------------------------------------------------------------
\* A step of the program is computed on a context c: the engine fields (e),
\* the callback invocations made so far in the step (o), the set of open
\* stream objects (s), the position the acting thread ends at (nx) and
\* whether an exception reached the handler of _capture_loop (raised).
Ctx(e, s) == [e |-> e, o |-> <<>>, s |-> s, nx |-> "none", raised |-> FALSE]

\* What a step does to the outside is a sequence of events: a message
\* printed, on_error or on_chunk invoked (cb is the function invoked), a call
\* of the application returning (arg is 1 for True, 0 for False or None).
Event(kind, by, cb, msg, arg, data) ==
    [kind |-> kind, by |-> by, cb |-> cb, msg |-> msg, arg |-> arg,
     data |-> data]

\* `if self.error_callback: self.error_callback(msg)`
CallErrorCallback(c, by, msg, arg) ==
    IF c.e.error_callback = "none" THEN c
    ELSE [c EXCEPT !.o = Append(@, Event("on_error", by, c.e.error_callback,
                                         msg, arg, <<>>))]

\* `print(msg)` followed by `if self.error_callback: self.error_callback(msg)`
Report(c, by, msg, arg) ==
    CallErrorCallback(
        [c EXCEPT !.o = Append(@, Event("print", by, "none", msg, arg, <<>>))],
        by, msg, arg)

\* list_devices: empty when the backend library is missing
list_devices == IF backend_available THEN devices ELSE {}

check_device_available(device_id) == device_id \in list_devices

Alive(t) == pc[t] \notin {"none", "done", "crashed"}

\* Positions at which a thread stays for longer than the 2 second join
\* timeout: the 5 second reconnection delay and a blocking device read.
Blocked(t) == pc[t] \in {"sleeping", "reading"}

\* `if self.capture_thread: self.capture_thread.join(timeout=2.0)` goes on:
\* there is no thread, or it ended, or 2 seconds passed
JoinReturns(t) == IF t = None THEN TRUE ELSE ~Alive(t) \/ Blocked(t)

\* the same for a secondary thread, which blocks only in a device read
SecJoinReturns(t) == IF t = None THEN TRUE
                     ELSE spc[t] \in {"none", "done", "reading"}

RECURSIVE SumSquares(_)
SumSquares(a) == IF a = <<>> THEN 0
                 ELSE Head(a) * Head(a) + SumSquares(Tail(a))

RECURSIVE Concatenate(_)
Concatenate(bufs) == IF bufs = <<>> THEN <<>>
                     ELSE Head(bufs) \o Concatenate(Tail(bufs))

ISqrt(n) == CHOOSE r \in 0..n : r * r <= n /\ n < (r + 1) * (r + 1)

Min(a, b) == IF a < b THEN a ELSE b

\* ---- _update_audio_level --------------------------------------------------
update_audio_level(e, audio_array) ==
    IF Len(audio_array) > 0
    THEN [e EXCEPT !.current_audio_level =
             Min(ISqrt(SumSquares(audio_array) \div Len(audio_array)), level_max)]
    ELSE e

\* ---- _should_pause_on_silence: the result and the engine afterwards -------
\* a gate that pauses as soon as the silence has lasted the limit
should_pause_on_silence_AtLimit(e, time) ==
    IF e.current_audio_level < e.vad_threshold
    THEN IF e.silence_start_time = None
         THEN [val |-> FALSE, e |-> [e EXCEPT !.silence_start_time = time]]
         ELSE [val |-> time - e.silence_start_time >= silence_limit, e |-> e]
    ELSE [val |-> FALSE, e |-> [e EXCEPT !.silence_start_time = None]]

should_pause_on_silence(e, time) ==
    IF e.current_audio_level < e.vad_threshold
    THEN IF e.silence_start_time = None
         THEN [val |-> FALSE, e |-> [e EXCEPT !.silence_start_time = time]]
         ELSE [val |-> time - e.silence_start_time > silence_limit, e |-> e]
    ELSE [val |-> FALSE, e |-> [e EXCEPT !.silence_start_time = None]]

\* ---- callbacks ------------------------------------------------------------
IsMix(cb) == cb \in {"mix:cbA", "mix:cbB"}
MixOf(cb) == IF cb = "cbA" THEN "mix:cbA" ELSE "mix:cbB"
MixTarget(cb) == IF cb = "mix:cbA" THEN "cbA" ELSE "cbB"

\* a call made by the application returns val
Return(op, val) ==
    Event("return", Caller, "none", op, IF val THEN 1 ELSE 0, <<>>)

\* start_capture(device_id, callback, ...) returns val
ReturnStart(op, device_id, callback, val) ==
    Event("return", Caller, callback, op, IF val THEN 1 ELSE 0, <<device_id>>)

\* start_multi_source_capture(device_ids, callback) returns val
ReturnMulti(device_ids, callback, val) ==
    Event("return", Caller, callback, "start_multi_source_capture",
          IF val THEN 1 ELSE 0, device_ids)

ChunkEvent(by, cb, data) == Event("on_chunk", by, cb, "chunk", 0, data)

\* `with lock:` entered and left by thread `by`
Acquire(by, lock) == Event("acquire", by, "none", lock, 0, <<>>)
Release(by, lock) == Event("release", by, "none", lock, 0, <<>>)

\* the name of the secondary capture thread t in the events it makes
SecondaryId(t) == 0 - (t + 1)

\* `self.secondary_buffer.append(...)` by the secondary thread `by`
SecondaryEnqueueEvent(by, data) ==
    Event("enqueue_secondary", by, "none", "chunk", 0, data)

\* `self.primary_buffer.clear(); self.secondary_buffer.clear()`
ClearEvent(by) == Event("clear", by, "none", "buffers", 0, <<>>)

\* thread `by` took the block `data` from its stream
ReadEvent(by, data) == Event("read", by, "none", "chunk", 0, data)

\* ---- _mix_and_callback ----------------------------------------------------
\* a mixer that takes the newest block of the secondary queue
mix_and_callback_NewestSecondary(c, by, callback) ==
    IF c.e.primary_buffer = <<>> \/ c.e.secondary_buffer = <<>> THEN c
    ELSE LET primary_chunk == Head(c.e.primary_buffer)
             secondary_chunk == c.e.secondary_buffer[Len(c.e.secondary_buffer)]
             min_len == Min(Len(primary_chunk), Len(secondary_chunk))
             mixed_audio == [i \in 1..min_len |->
                               (primary_chunk[i] + secondary_chunk[i]) \div 2]
         IN [c EXCEPT !.e.primary_buffer = Tail(@),
                      !.e.secondary_buffer =
                          SubSeq(@, 1, Len(c.e.secondary_buffer) - 1),
                      !.o = Append(@, ChunkEvent(by, callback, mixed_audio))]

\* a mixer that discards the primary block that finds no counterpart
mix_and_callback_DropsUnmatched(c, by, callback) ==
    IF c.e.primary_buffer = <<>> THEN c
    ELSE IF c.e.secondary_buffer = <<>>
    THEN [c EXCEPT !.e.primary_buffer = Tail(@)]
    ELSE LET primary_chunk == Head(c.e.primary_buffer)
             secondary_chunk == Head(c.e.secondary_buffer)
             min_len == Min(Len(primary_chunk), Len(secondary_chunk))
             mixed_audio == [i \in 1..min_len |->
                               (primary_chunk[i] + secondary_chunk[i]) \div 2]
         IN [c EXCEPT !.e.primary_buffer = Tail(@),
                      !.e.secondary_buffer = Tail(@),
                      !.o = Append(@, ChunkEvent(by, callback, mixed_audio))]

\* a mixer that adds the blocks without halving the sum
mix_and_callback_Sum(c, by, callback) ==
    IF c.e.primary_buffer = <<>> \/ c.e.secondary_buffer = <<>> THEN c
    ELSE LET primary_chunk == Head(c.e.primary_buffer)
             secondary_chunk == Head(c.e.secondary_buffer)
             min_len == Min(Len(primary_chunk), Len(secondary_chunk))
             mixed_audio == [i \in 1..min_len |->
                               primary_chunk[i] + secondary_chunk[i]]
         IN [c EXCEPT !.e.primary_buffer = Tail(@),
                      !.e.secondary_buffer = Tail(@),
                      !.o = Append(@, ChunkEvent(by, callback, mixed_audio))]

\* lines 693-711; the samples of the model are even multiples of 0.01, so
\* that `/ 2.0` is the exact half
mix_and_callback(c, by, callback) ==
    IF c.e.primary_buffer = <<>> \/ c.e.secondary_buffer = <<>> THEN c
    ELSE LET primary_chunk == Head(c.e.primary_buffer)
             secondary_chunk == Head(c.e.secondary_buffer)
             min_len == Min(Len(primary_chunk), Len(secondary_chunk))
             mixed_audio == [i \in 1..min_len |->
                               (primary_chunk[i] + secondary_chunk[i]) \div 2]
         IN [c EXCEPT !.e.primary_buffer = Tail(@),
                      !.e.secondary_buffer = Tail(@),
                      !.o = Append(@, ChunkEvent(by, callback, mixed_audio))]

\* `self.primary_buffer.append(audio_data)` by thread `by`
EnqueueEvent(by, data) == Event("enqueue", by, "none", "chunk", 0, data)

\* ---- start_multi_source_capture.primary_callback ---------------------------
\* lines 571-574: the append and the mixer run inside `with self.buffer_lock`
primary_callback(c, by, callback, audio_data) ==
    LET c1 == [c EXCEPT !.o = Append(@, Acquire(by, "buffer_lock"))]
        c2 == mix_and_callback(
                [c1 EXCEPT !.e.primary_buffer = Append(@, audio_data),
                           !.o = Append(@, EnqueueEvent(by, audio_data))],
                by, callback)
    IN [c2 EXCEPT !.o = Append(@, Release(by, "buffer_lock"))]

\* `self.callback(audio_array)`
CallCallback(c, by, audio_array) ==
    IF IsMix(c.e.callback)
    THEN primary_callback(c, by, MixTarget(c.e.callback), audio_array)
    ELSE [c EXCEPT !.o = Append(@, ChunkEvent(by, c.e.callback, audio_array))]

\* ---- the body of the read loops after a block was read --------------------
\* a loop body that does not forward the block with which it leaves the pause
ProcessChunk_ResumeSkips(c, by, audio_array) ==
    LET e1 == update_audio_level(c.e, audio_array)
        sp == should_pause_on_silence(e1, now)
        c1 == [c EXCEPT !.o = Append(@, ReadEvent(by, audio_array))]
    IN IF sp.val
       THEN [c1 EXCEPT !.e = [sp.e EXCEPT !.is_paused = TRUE]]
       ELSE LET c2 == [c1 EXCEPT !.e = [sp.e EXCEPT !.is_paused = FALSE]]
            IN IF c2.e.callback # "none" /\ ~c.e.is_paused
               THEN CallCallback(c2, by, audio_array)
               ELSE c2

ProcessChunk(c, by, audio_array) ==
    LET e1 == update_audio_level(c.e, audio_array)
        sp == should_pause_on_silence(e1, now)
        c1 == [c EXCEPT !.o = Append(@, ReadEvent(by, audio_array))]
    IN IF sp.val
       THEN [c1 EXCEPT !.e = [sp.e EXCEPT !.is_paused = TRUE]]
       ELSE LET c2 == [c1 EXCEPT !.e = [sp.e EXCEPT !.is_paused = FALSE]]
            IN IF c2.e.callback # "none" THEN CallCallback(c2, by, audio_array)
               ELSE c2

\* ---- the finally clause of _capture_loop_windows / _capture_loop_unix -----
\* self.stream is a field of the engine: the clause closes whichever stream
\* object the field refers to at that moment.
CloseStream(c) ==
    IF c.e.stream # None
    THEN [c EXCEPT !.s = @ \ {c.e.stream}, !.e.stream = None]
    ELSE c

\* ---- _capture_loop: `except Exception as e` -------------------------------
\* a handler that catches only operating-system errors
CaptureLoopCatches_OSErrorOnly(kind) == kind = "OSError"

CaptureLoopCatches(kind) == kind \in {"RuntimeError", "OSError", "Exception"}

\* a handler whose exhausted branch neither clears is_capturing nor breaks
CaptureLoopExcept_NoBreak(c, t, kind) ==
    IF ~CaptureLoopCatches(kind)
    THEN [c EXCEPT !.nx = "crashed", !.raised = TRUE]
    ELSE
    LET c1 == Report([c EXCEPT !.raised = TRUE], t,
                     "Error in capture loop", 0)
    IN IF c1.e.reconnect_attempts < max_reconnect_attempts
       THEN LET c2 == [c1 EXCEPT !.e.reconnect_attempts = @ + 1]
                c3 == Report(c2, t, "Attempting to reconnect",
                             c2.e.reconnect_attempts)
            IN [c3 EXCEPT !.nx = "sleeping"]
       ELSE LET c2 == Report(c1, t,
                             "Maximum reconnection attempts reached", 0)
            IN [c2 EXCEPT !.nx = "sleeping"]

CaptureLoopExcept(c, t, kind) ==
    IF ~CaptureLoopCatches(kind)
    THEN [c EXCEPT !.nx = "crashed", !.raised = TRUE]
    ELSE
    LET c1 == Report([c EXCEPT !.raised = TRUE], t,
                     "Error in capture loop", 0)
    IN IF c1.e.reconnect_attempts < max_reconnect_attempts
       THEN LET c2 == [c1 EXCEPT !.e.reconnect_attempts = @ + 1]
                c3 == Report(c2, t, "Attempting to reconnect",
                             c2.e.reconnect_attempts)
            IN [c3 EXCEPT !.nx = "sleeping"]
       ELSE LET c2 == Report(c1, t,
                             "Maximum reconnection attempts reached", 0)
            IN [c2 EXCEPT !.e.is_capturing = FALSE, !.nx = "done"]

\* an exception leaves the platform loop through its finally clause
RaiseInPlatformLoop(c, t, kind) == CaptureLoopExcept(CloseStream(c), t, kind)

\* ---- stop_capture up to its first join ------------------------------------
\* (called with is_capturing true); nx is the join the caller waits in
StopCaptureBegin(c) ==
    IF c.e.secondary_device_id # None
    THEN [c EXCEPT !.e.stop_event = TRUE, !.e.secondary_stop_event = TRUE,
                   !.nx = "join_sec"]
    ELSE [c EXCEPT !.e.stop_event = TRUE, !.nx = "join_pri"]

\* a stop_capture without the test of is_capturing
stop_capture_NoGuard(c) == StopCaptureBegin(c)

\* stop_capture, lines 489-497; nx = "returned" when it returns at once
stop_capture(c) ==
    IF ~c.e.is_capturing THEN [c EXCEPT !.nx = "returned"]
    ELSE StopCaptureBegin(c)

\* stop_capture after the join of the secondary thread
StopCaptureAfterSecondary(e) ==
    [e EXCEPT !.secondary_device_id = None, !.secondary_thread = None]

\* stop_capture after the join of the capture thread
StopCaptureFinish(e) ==
    [e EXCEPT !.is_capturing = FALSE,
              !.callback = "none",
              !.current_device_id = None,
              !.is_paused = FALSE,
              !.silence_start_time = None,
              !.primary_buffer = <<>>,
              !.secondary_buffer = <<>>]

\* lines 506-515 run by `by`: the queues are cleared inside
\* `with self.audio_lock`
StopCaptureClear(c, by) ==
    [c EXCEPT !.e = StopCaptureFinish(c.e),
              !.o = @ \o <<Acquire(by, "audio_lock"), ClearEvent(by),
                            Release(by, "audio_lock")>>]

\* ---- handle_device_disconnection up to the first join of stop_capture -----
\* nx = "returned" when the handler returns at once (not capturing)
HandleDisconnectionBegin(c, by) ==
    IF ~c.e.is_capturing THEN [c EXCEPT !.nx = "returned"]
    ELSE StopCaptureBegin(
           Report(c, by, "Audio device disconnected",
                  c.e.current_device_id))

\* handle_device_disconnection after stop_capture returned
HandleDisconnectionEnd(c, by) ==
    CallErrorCallback(c, by, "Please select a different audio device", 0)

\* the call of handle_device_disconnection made by the capture thread t,
\* followed by the `raise RuntimeError` of the platform loop
ThreadDisconnection(c, t) ==
    LET c1 == HandleDisconnectionBegin(c, t)
    IN IF c1.nx = "returned" THEN RaiseInPlatformLoop(c1, t, "RuntimeError")
       ELSE c1

\* ---- the capture thread ----------------------------------------------------
\* the blocks of the events of kind `kind` in o, in order
EventData(o, kind) ==
    LET x == SelectSeq(o, LAMBDA ev : ev.kind = kind)
    IN [i \in 1..Len(x) |-> x[i].data]

\* the record after a step of the capture thread that made the calls o
Observe(h, o) ==
    IF ~h.on \/ EventData(o, "enqueue") = <<>> THEN h
    ELSE [h EXCEPT !.p = @ \o EventData(o, "enqueue"),
                   !.m = @ \o EventData(o, "on_chunk")]

Commit(c, t) ==
    /\ self' = c.e
    /\ out' = c.o
    /\ stream_active' = c.s
    /\ pc' = [pc EXCEPT ![t] = c.nx]
    /\ failures' = IF c.raised THEN Min(failures + 1, MaxFailures)
                    ELSE failures
    /\ hist' = Observe(hist, c.o)
    /\ Len(hist'.p) <= MaxBlocks

\* _capture_loop, line 238: the stop flag is set, the loop ends
LoopExit(t) ==
    /\ pc[t] = "top"
    /\ self.stop_event
    /\ pc' = [pc EXCEPT ![t] = "done"]
    /\ out' = <<>>
    /\ UNCHANGED <<self, stream_active, failures, secs, call, env>>

\* _capture_loop_windows 284-289 / _capture_loop_unix 387-392
BackendMissing(t) ==
    /\ pc[t] = "top"
    /\ ~self.stop_event
    /\ ~backend_available
    /\ LET c1 == Report(Ctx(self, stream_active), t,
                        "Error: audio library not available", 0)
       IN Commit(CaptureLoopExcept(c1, t, "RuntimeError"), t)
    /\ UNCHANGED <<secs, call, world>>

\* lines 293-295 / 396-398: the configured device is not enumerated
DeviceAbsent(t) ==
    /\ pc[t] = "top"
    /\ ~self.stop_event
    /\ backend_available
    /\ ~check_device_available(self.current_device_id)
    /\ Commit(ThreadDisconnection(Ctx(self, stream_active), t), t)
    /\ UNCHANGED <<secs, call, world>>

\* an open that leaves the attempt counter as it was
OpenStream_KeepsCounter(t, ok) ==
    /\ pc[t] = "top"
    /\ ~self.stop_event
    /\ backend_available
    /\ check_device_available(self.current_device_id)
    /\ IF ok
       THEN /\ self' = [self EXCEPT !.stream = t]
            /\ stream_active' = stream_active \cup {t}
            /\ pc' = [pc EXCEPT ![t] = "streaming"]
            /\ failures' = 0
            /\ out' = <<>>
            /\ hist' = hist
       ELSE Commit(RaiseInPlatformLoop(Ctx(self, stream_active), t,
                                       "Exception"), t)
    /\ UNCHANGED <<secs, call, world>>

\* lines 297-316 / 400-439: the stream is opened (ok) or the backend raises
OpenStream(t, ok) ==
    /\ pc[t] = "top"
    /\ ~self.stop_event
    /\ backend_available
    /\ check_device_available(self.current_device_id)
    /\ IF ok
       THEN /\ self' = [self EXCEPT !.stream = t, !.reconnect_attempts = 0]
            /\ stream_active' = stream_active \cup {t}
            /\ pc' = [pc EXCEPT ![t] = "streaming"]
            /\ failures' = 0
            /\ out' = <<>>
            /\ hist' = hist
       ELSE Commit(RaiseInPlatformLoop(Ctx(self, stream_active), t,
                                       "Exception"), t)
    /\ UNCHANGED <<secs, call, world>>

\* line 267: time.sleep(self.reconnect_delay) returns
WakeUp(t) ==
    /\ pc[t] = "sleeping"
    /\ pc' = [pc EXCEPT ![t] = "top"]
    /\ out' = <<>>
    /\ UNCHANGED <<self, stream_active, failures, secs, call, env>>

\* ---- _capture_loop_unix, lines 441-476: one pass of the polling loop ------
\* audio_buffer holds the blocks that audio_callback (lines 405-419) appended
\* since the last pass.  consecutive_errors counts the passes up to and
\* including this one in which audio_callback had set stream_error; the
\* earlier passes of such a run are passes of this loop as well, and they
\* change nothing but the local counter.
UnixPollBody(c, t, audio_buffer, consecutive_errors) ==
    IF consecutive_errors >= max_consecutive_errors
    THEN ThreadDisconnection(c, t)
    ELSE IF audio_buffer # <<>>
         THEN [ProcessChunk(c, t, Concatenate(audio_buffer))
                 EXCEPT !.nx = "streaming"]
         ELSE [c EXCEPT !.nx = "streaming"]

UnixPoll(t, audio_buffer, consecutive_errors) ==
    /\ pc[t] = "streaming"
    /\ platform = "unix"
    /\ IF self.stop_event
       THEN /\ audio_buffer = <<>> /\ consecutive_errors = 0
            /\ Commit([CloseStream(Ctx(self, stream_active))
                          EXCEPT !.nx = "done"], t)
       ELSE LET c == UnixPollBody(Ctx(self, stream_active), t, audio_buffer,
                                  consecutive_errors)
            IN /\ t \notin stream_active =>
                     audio_buffer = <<>> /\ consecutive_errors = 0
               /\ Len(c.e.primary_buffer) <= MaxQueue
               /\ Commit(c, t)
    /\ UNCHANGED <<secs, call, world>>

\* ---- _capture_loop_windows, line 318: the loop test ------------------------
\* a loop test that does not look at the stop flag
WinLoopTest_IgnoresFlag(t) ==
    /\ pc[t] = "streaming"
    /\ platform = "win32"
    /\ Commit([Ctx(self, stream_active) EXCEPT !.nx = "reading"], t)
    /\ UNCHANGED <<secs, call, world>>

WinLoopTest(t) ==
    /\ pc[t] = "streaming"
    /\ platform = "win32"
    /\ IF self.stop_event
       THEN Commit([CloseStream(Ctx(self, stream_active))
                       EXCEPT !.nx = "done"], t)
       ELSE Commit([Ctx(self, stream_active) EXCEPT !.nx = "reading"], t)
    /\ UNCHANGED <<secs, call, world>>

\* lines 320-352: stream.read returns a block
WinReadData(t, audio_array) ==
    /\ pc[t] = "reading"
    /\ t \in stream_active
    /\ LET c == ProcessChunk(Ctx(self, stream_active), t, audio_array)
       IN /\ Len(c.e.primary_buffer) <= MaxQueue
          /\ Commit([c EXCEPT !.nx = "streaming"], t)
    /\ UNCHANGED <<secs, call, world>>

\* lines 354-374: stream.read raises (a closed stream raises OSError).
\* consecutive_errors counts the reads up to and including this one that
\* raised since the last block; the earlier reads of such a run change
\* nothing but the local counter.
WinReadExcept(c, t, kind, consecutive_errors) ==
    IF consecutive_errors >= max_consecutive_errors
    THEN IF kind = "OSError" THEN ThreadDisconnection(c, t)
         ELSE RaiseInPlatformLoop(c, t, kind)
    ELSE [c EXCEPT !.nx = "streaming"]

WinReadError(t, kind, consecutive_errors) ==
    /\ pc[t] = "reading"
    /\ t \notin stream_active => kind = "OSError"
    /\ Commit(WinReadExcept(Ctx(self, stream_active), t, kind,
                            consecutive_errors), t)
    /\ UNCHANGED <<secs, call, world>>

\* ---- stop_capture run by a capture thread (through the disconnection
\* handler): the join of the secondary thread, lines 498-501 ------------------
ThreadJoinSecondary(t) ==
    /\ pc[t] = "join_sec"
    /\ SecJoinReturns(self.secondary_thread)
    /\ Commit([Ctx(StopCaptureAfterSecondary(self), stream_active)
                  EXCEPT !.nx = "join_pri"], t)
    /\ UNCHANGED <<secs, call, world>>

\* lines 503-515 and 753-755: Thread.join raises RuntimeError when a thread
\* joins itself; otherwise it returns when the thread ended or after 2 seconds
ThreadJoinPrimaryBody(c, t) ==
    IF c.e.capture_thread = t
    THEN RaiseInPlatformLoop(c, t, "RuntimeError")
    ELSE RaiseInPlatformLoop(
           HandleDisconnectionEnd(StopCaptureClear(c, t), t),
           t, "RuntimeError")

ThreadJoinPrimary(t) ==
    /\ pc[t] = "join_pri"
    /\ IF self.capture_thread = t THEN TRUE
       ELSE JoinReturns(self.capture_thread)
    /\ Commit(ThreadJoinPrimaryBody(Ctx(self, stream_active), t), t)
    /\ UNCHANGED <<secs, call, world>>

\* ---- the secondary capture thread ------------------------------------------
\* the finally clause of _secondary_capture_windows / _secondary_capture_unix
CloseSecondaryStream(e) == [e EXCEPT !.secondary_stream = None]

\* a secondary thread that tries again when its stream cannot be opened
SecondaryOpen_Retries(t, ok) ==
    /\ spc[t] = "start"
    /\ ok => backend_available /\ check_device_available(sec_device[t])
    /\ IF ok
       THEN /\ self' = [self EXCEPT !.secondary_stream = t]
            /\ sec_active' = sec_active \cup {t}
            /\ spc' = [spc EXCEPT ![t] = "running"]
       ELSE /\ self' = [self EXCEPT !.reconnect_attempts = 1]
            /\ UNCHANGED <<sec_active, spc>>
    /\ out' = <<>>
    /\ UNCHANGED <<pc, stream_active, failures, sec_device, call, env>>

\* _secondary_capture_loop, lines 597-623 / 652-681: the stream is opened, or
\* the library is missing (return) or the open raises (caught at line 604)
SecondaryOpen(t, ok) ==
    /\ spc[t] = "start"
    /\ ok => backend_available /\ check_device_available(sec_device[t])
    /\ IF ok
       THEN /\ self' = [self EXCEPT !.secondary_stream = t]
            /\ sec_active' = sec_active \cup {t}
            /\ spc' = [spc EXCEPT ![t] = "running"]
       ELSE /\ self' = IF backend_available THEN CloseSecondaryStream(self)
                       ELSE self
            /\ sec_active' = IF backend_available
                             THEN sec_active \ {self.secondary_stream}
                             ELSE sec_active
            /\ spc' = [spc EXCEPT ![t] = "done"]
    /\ out' = <<>>
    /\ UNCHANGED <<pc, stream_active, failures, sec_device, call, env>>

\* lines 626 / 684: the loop test of the secondary thread
SecondaryLoopTest(t) ==
    /\ spc[t] = "running"
    /\ IF self.secondary_stop_event
       THEN /\ self' = CloseSecondaryStream(self)
            /\ sec_active' = sec_active \ {self.secondary_stream}
            /\ spc' = [spc EXCEPT ![t] = "done"]
       ELSE /\ platform = "win32"
            /\ spc' = [spc EXCEPT ![t] = "reading"]
            /\ UNCHANGED <<self, sec_active>>
    /\ out' = <<>>
    /\ UNCHANGED <<pc, stream_active, failures, sec_device, call, env>>

\* an append that is skipped while the session is paused on silence
SecondaryAppend_Gated(e, audio_array) ==
    IF e.is_paused THEN e
    ELSE [e EXCEPT !.secondary_buffer = Append(@, audio_array)]

\* `with self.buffer_lock: self.secondary_buffer.append(...)`
SecondaryAppend(e, audio_array) ==
    [e EXCEPT !.secondary_buffer = Append(@, audio_array)]

\* lines 639-640 and 668-669: the append is made inside
\* `with self.buffer_lock`
SecondaryAppendCalls(t, audio_array) ==
    <<Acquire(SecondaryId(t), "buffer_lock"),
      SecondaryEnqueueEvent(SecondaryId(t), audio_array),
      Release(SecondaryId(t), "buffer_lock")>>

\* the record after the secondary thread appended a block
ObserveSecondary(h, audio_array) ==
    IF h.on THEN [h EXCEPT !.s = Append(@, audio_array)] ELSE h

\* _secondary_capture_unix.audio_callback, lines 658-669
SecondaryAudioCallback(t, indata) ==
    /\ platform = "unix"
    /\ t \in sec_active
    /\ Len(self.secondary_buffer) < MaxQueue
    /\ self' = SecondaryAppend(self, indata)
    /\ out' = SecondaryAppendCalls(t, indata)
    /\ hist' = ObserveSecondary(hist, indata)
    /\ Len(hist'.s) <= MaxBlocks
    /\ UNCHANGED <<pc, stream_active, failures, secs, call, world>>

\* _secondary_capture_windows, lines 628-640: the read returns a block
SecondaryReadData(t, audio_array) ==
    /\ spc[t] = "reading"
    /\ t \in sec_active
    /\ Len(self.secondary_buffer) < MaxQueue
    /\ self' = SecondaryAppend(self, audio_array)
    /\ spc' = [spc EXCEPT ![t] = "running"]
    /\ out' = SecondaryAppendCalls(t, audio_array)
    /\ hist' = ObserveSecondary(hist, audio_array)
    /\ Len(hist'.s) <= MaxBlocks
    /\ UNCHANGED <<pc, stream_active, failures, sec_active, sec_device,
                   call, world>>

\* lines 642-644: the read raises; the error is printed and the loop goes on
SecondaryReadError(t) ==
    /\ spc[t] = "reading"
    /\ spc' = [spc EXCEPT ![t] = "running"]
    /\ out' = <<>>
    /\ UNCHANGED <<self, pc, stream_active, failures, sec_active,
                   sec_device, call, env>>

\* ---- the application thread -------------------------------------------------
\* the failure count starts anew with every capture thread started
SessionFailures ==
    failures' = IF pc' # pc THEN 0 ELSE failures

\* Thread identities are positions.  Position 1 is the thread that was started
\* last (the one self.capture_thread refers to); a thread of an earlier start
\* that is still alive, or whose stream object is still open, holds one of the
\* other positions.  A position is free when its thread ended and its stream
\* object is gone.
Occupied(t) == Alive(t) \/ t \in stream_active \/ self.stream = t
FreeThreads(limit) == {t \in 1..limit : ~Occupied(t)}
NewThread == 1
\* the position the thread at position 1 moves to when a new one is started
Spare(limit) ==
    CHOOSE t \in FreeThreads(limit) \ {1} :
        \A u \in FreeThreads(limit) \ {1} : t <= u
\* the name, after a start, of the thread (or stream) called x before it
Displace(limit, x) ==
    IF x = 1 /\ Occupied(1) THEN Spare(limit) ELSE x
DisplaceStream(limit, e) ==
    [e EXCEPT !.stream = IF @ = None THEN None ELSE Displace(limit, @)]

FreeSecThreads ==
    {t \in SecThreads : spc[t] \in {"none", "done"} /\ t \notin sec_active
                           /\ self.secondary_stream # t}
NewSecThread == CHOOSE t \in FreeSecThreads : \A u \in FreeSecThreads : t <= u

\* start_capture, lines 219-234: the engine afterwards (thread is the one it
\* creates); its return value is StartCaptureReturns
StartCaptureReturns(e) == ~e.is_capturing

\* a start_capture that registers its arguments before testing is_capturing
start_capture_RegistersFirst(e, thread, device_id, callback, error_callback) ==
    IF e.is_capturing
    THEN [e EXCEPT !.callback = callback,
                   !.error_callback = error_callback,
                   !.current_device_id = device_id]
    ELSE [e EXCEPT !.callback = callback,
                   !.error_callback = error_callback,
                   !.current_device_id = device_id,
                   !.stop_event = FALSE,
                   !.reconnect_attempts = 0,
                   !.capture_thread = thread,
                   !.is_capturing = TRUE]

start_capture(e, thread, device_id, callback, error_callback) ==
    IF e.is_capturing THEN e
    ELSE [e EXCEPT !.callback = callback,
                   !.error_callback = error_callback,
                   !.current_device_id = device_id,
                   !.stop_event = FALSE,
                   !.reconnect_attempts = 0,
                   !.capture_thread = thread,
                   !.is_capturing = TRUE]

\* the threads after a start_capture on engine e (line 232)
StartThread(limit, e) ==
    IF StartCaptureReturns(e)
    THEN [t \in Threads |->
            IF t = NewThread THEN "top"
            ELSE IF Occupied(1) /\ t = Spare(limit) THEN pc[1]
            ELSE pc[t]]
    ELSE pc

\* the open streams after a start_capture on engine e
StartStreams(limit, e) ==
    IF StartCaptureReturns(e)
    THEN {Displace(limit, x) : x \in stream_active}
    ELSE stream_active

\* the engine after a start_capture on engine e
StartEngine(limit, e, after) ==
    IF StartCaptureReturns(e) THEN DisplaceStream(limit, after) ELSE after

CallStartCapture(limit, device_id, callback, error_callback) ==
    /\ cpc = "idle"
    /\ ~self.is_capturing => FreeThreads(limit) # {}
    /\ self' = StartEngine(limit, self,
                           start_capture(self, NewThread, device_id, callback,
                                         error_callback))
    /\ pc' = StartThread(limit, self)
    /\ stream_active' = StartStreams(limit, self)
    /\ out' = <<ReturnStart("start_capture", device_id, callback,
                            StartCaptureReturns(self))>>
    /\ UNCHANGED <<secs, cpc, csave, env>>
    /\ SessionFailures

\* a start that takes the second id as the primary device
start_multi_source_Swapped(e, thread, secondary, primary_device, secondary_device, callback) ==
    [e EXCEPT !.primary_buffer = <<>>,
              !.secondary_buffer = <<>>,
              !.callback = MixOf(callback),
              !.current_device_id = secondary_device,
              !.stop_event = FALSE,
              !.capture_thread = thread,
              !.is_capturing = TRUE,
              !.secondary_device_id = primary_device,
              !.secondary_stop_event = FALSE,
              !.secondary_thread = secondary]

\* start_multi_source_capture, lines 557-595, with two device ids
start_multi_source(e, thread, secondary, primary_device, secondary_device, callback) ==
    [e EXCEPT !.primary_buffer = <<>>,
              !.secondary_buffer = <<>>,
              !.callback = MixOf(callback),
              !.current_device_id = primary_device,
              !.stop_event = FALSE,
              !.capture_thread = thread,
              !.is_capturing = TRUE,
              !.secondary_device_id = secondary_device,
              !.secondary_stop_event = FALSE,
              !.secondary_thread = secondary]

\* start_multi_source_capture, lines 549-595
CallStartMultiSource(limit, device_ids, callback) ==
    /\ cpc = "idle"
    /\ ~self.is_capturing /\ Len(device_ids) > 0 => FreeThreads(limit) # {}
    /\ ~self.is_capturing /\ Len(device_ids) > 1 => FreeSecThreads # {}
    /\ IF Len(device_ids) = 0
       THEN /\ out' = <<ReturnMulti(device_ids, callback, FALSE)>>
            /\ UNCHANGED <<self, pc, stream_active, spc, sec_device>>
       ELSE IF Len(device_ids) = 1
       THEN /\ self' = StartEngine(limit, self,
                                   start_capture(self, NewThread,
                                                 device_ids[1], callback,
                                                 "none"))
            /\ pc' = StartThread(limit, self)
            /\ stream_active' = StartStreams(limit, self)
            /\ out' = <<ReturnMulti(device_ids, callback,
                                    StartCaptureReturns(self))>>
            /\ UNCHANGED <<spc, sec_device>>
       ELSE IF self.is_capturing
       THEN /\ out' = <<ReturnMulti(device_ids, callback, FALSE)>>
            /\ UNCHANGED <<self, pc, stream_active, spc, sec_device>>
       ELSE /\ self' = StartEngine(limit, self,
                                   start_multi_source(self, NewThread,
                                                      NewSecThread,
                                                      device_ids[1],
                                                      device_ids[2], callback))
            /\ pc' = StartThread(limit, self)
            /\ stream_active' = StartStreams(limit, self)
            /\ spc' = [spc EXCEPT ![NewSecThread] = "start"]
            /\ sec_device' = [sec_device EXCEPT ![NewSecThread] = device_ids[2]]
            /\ out' = <<ReturnMulti(device_ids, callback, TRUE)>>
    /\ UNCHANGED <<sec_active, cpc, csave, env>>
    /\ SessionFailures

\* stop_capture, lines 489-497: not capturing, or the flags are set and the
\* caller goes on to join the threads
CallStopCapture ==
    /\ cpc = "idle"
    /\ LET c == stop_capture(Ctx(self, stream_active))
       IN IF c.nx = "returned"
          THEN /\ out' = <<Return("stop_capture", FALSE)>>
               /\ UNCHANGED <<self, cpc, csave>>
          ELSE /\ self' = c.e
               /\ cpc' = c.nx
               /\ csave' = [NoSave EXCEPT !.op = "stop_capture"]
               /\ out' = <<>>
    /\ UNCHANGED <<pc, stream_active, secs, env>>
    /\ SessionFailures

\* set_device, lines 524-532
CallSetDevice(device_id) ==
    /\ cpc = "idle"
    /\ IF ~self.is_capturing
       THEN /\ self' = [self EXCEPT !.current_device_id = device_id]
            /\ out' = <<ReturnStart("set_device", device_id, "none", FALSE)>>
            /\ UNCHANGED <<cpc, csave>>
       ELSE LET c == StopCaptureBegin(Ctx(self, stream_active))
            IN /\ self' = c.e
               /\ cpc' = c.nx
               /\ csave' = [op |-> "set_device", device_id |-> device_id,
                            saved_callback |-> self.callback]
               /\ out' = <<>>
    /\ UNCHANGED <<pc, stream_active, secs, env>>
    /\ SessionFailures

\* handle_device_disconnection called by the application, lines 740-751
CallHandleDisconnection ==
    /\ cpc = "idle"
    /\ LET c == HandleDisconnectionBegin(Ctx(self, stream_active), Caller)
       IN IF c.nx = "returned"
          THEN /\ out' = <<Return("handle_device_disconnection", FALSE)>>
               /\ UNCHANGED <<self, cpc, csave>>
          ELSE /\ self' = c.e
               /\ out' = c.o
               /\ cpc' = c.nx
               /\ csave' = [NoSave EXCEPT !.op = "handle_device_disconnection"]
    /\ UNCHANGED <<pc, stream_active, secs, env>>
    /\ SessionFailures

\* stop_capture, lines 498-501: the join of the secondary thread returns
CallerJoinSecondary ==
    /\ cpc = "join_sec"
    /\ SecJoinReturns(self.secondary_thread)
    /\ self' = StopCaptureAfterSecondary(self)
    /\ cpc' = "join_pri"
    /\ out' = <<>>
    /\ UNCHANGED <<pc, stream_active, failures, secs, csave, env>>

\* what the interrupted call does after stop_capture returned:
\* set_device restarts (lines 535-536), the disconnection handler notifies
\* (lines 754-755)
\* a set_device that reads the callback only after stop_capture cleared it
AfterStopCapture_CallbackRead(c, thread) ==
    IF csave.op = "set_device" /\ c.e.callback # "none"
    THEN [c EXCEPT !.e = start_capture(c.e, thread, csave.device_id,
                                       c.e.callback, "none")]
    ELSE IF csave.op = "handle_device_disconnection"
    THEN HandleDisconnectionEnd(c, Caller)
    ELSE c

\* a restart that hands the registered error callback on
AfterStopCapture_KeepsErrorCallback(c, thread) ==
    IF csave.op = "set_device" /\ csave.saved_callback # "none"
    THEN [c EXCEPT !.e = start_capture(c.e, thread, csave.device_id,
                                       csave.saved_callback,
                                       c.e.error_callback)]
    ELSE IF csave.op = "handle_device_disconnection"
    THEN HandleDisconnectionEnd(c, Caller)
    ELSE c

AfterStopCapture(c, thread) ==
    IF csave.op = "set_device" /\ csave.saved_callback # "none"
    THEN [c EXCEPT !.e = start_capture(c.e, thread, csave.device_id,
                                       csave.saved_callback, "none")]
    ELSE IF csave.op = "handle_device_disconnection"
    THEN HandleDisconnectionEnd(c, Caller)
    ELSE c

\* stop_capture, lines 503-515: the join of the capture thread returns (the
\* thread ended, or 2 seconds passed), the session fields are reset, and the
\* interrupted call completes
CallerJoinPrimary(limit) ==
    /\ cpc = "join_pri"
    /\ JoinReturns(self.capture_thread)
    /\ csave.op = "set_device" /\ csave.saved_callback # "none"
          => FreeThreads(limit) # {}
    /\ LET c0 == StopCaptureClear(Ctx(self, stream_active), Caller)
           c == AfterStopCapture(c0, NewThread)
       IN IF c.e.is_capturing
          THEN /\ self' = StartEngine(limit, c0.e, c.e)
               /\ pc' = StartThread(limit, c0.e)
               /\ stream_active' = StartStreams(limit, c0.e)
               /\ out' = Append(c.o, Return(csave.op, TRUE))
          ELSE /\ self' = c.e
               /\ out' = Append(c.o, Return(csave.op, TRUE))
               /\ UNCHANGED <<pc, stream_active>>
    /\ cpc' = "idle"
    /\ csave' = NoSave
    /\ UNCHANGED <<secs, env>>
    /\ SessionFailures

\* ---- the environment --------------------------------------------------------
Unplug(d) ==
    /\ d \in devices \cap Removable
    /\ devices' = devices \ {d}
    /\ out' = <<>>
    /\ UNCHANGED <<self, pc, stream_active, failures, secs, call,
                   platform, backend_available, now, hist,
                   transcription_engine>>

Plug(d) ==
    /\ d \notin devices
    /\ devices' = devices \cup {d}
    /\ out' = <<>>
    /\ UNCHANGED <<self, pc, stream_active, failures, secs, call,
                   platform, backend_available, now, hist,
                   transcription_engine>>

Tick ==
    /\ now < MaxTime
    /\ now' = now + 1
    /\ out' = <<>>
    /\ UNCHANGED <<self, pc, stream_active, failures, secs, call,
                   devices, platform, backend_available, hist,
                   transcription_engine>>

\* what the backend can deliver between two passes of the polling loop
Deliveries == UNION {[1..n -> Chunks] : n \in 0..MaxPending}

\* lengths of the runs of failing reads: none, a short one, one that reaches
\* the limit
ErrorRuns == {0, 1, max_consecutive_errors}

\* ---- the silence gate on its own -------------------------------------------
\* levels below, at and above the thresholds; thresholds 0.01 and 0.05
GateLevels == {0, 1, 5, 50}
Thresholds == {vad_threshold, 5}

InitGate ==
    /\ \E level \in GateLevels, t \in Thresholds,
          timer \in {None} \cup (0..MaxTime) :
          self = [EngineInit EXCEPT !.current_audio_level = level,
                                    !.vad_threshold = t,
                                    !.silence_start_time = timer]
    /\ now \in 0..MaxTime
    /\ pc = [t \in Threads |-> "none"]
    /\ stream_active = {}
    /\ failures = 0
    /\ spc = [t \in SecThreads |-> "none"]
    /\ sec_active = {}
    /\ sec_device = [t \in SecThreads |-> None]
    /\ cpc = "idle"
    /\ csave = NoSave
    /\ out = <<>>
    /\ devices = DeviceIds
    /\ platform = "unix"
    /\ backend_available = TRUE
    /\ hist = NoHist
    /\ transcription_engine = TranscriptionInit

\* a call of _should_pause_on_silence at time `now`
CallShouldPause ==
    /\ LET r == should_pause_on_silence(self, now)
       IN /\ self' = r.e
          /\ out' = <<Return("_should_pause_on_silence", r.val)>>
    /\ UNCHANGED <<pc, stream_active, failures, secs, call, env>>

\* a call of _update_audio_level
CallUpdateLevel(audio_array) ==
    /\ self' = update_audio_level(self, audio_array)
    /\ out' = <<>>
    /\ UNCHANGED <<pc, stream_active, failures, secs, call, env>>

NextGate ==
    \/ CallShouldPause
    \/ \E audio_array \in Chunks : CallUpdateLevel(audio_array)
    \/ Tick

SpecGate == InitGate /\ [][NextGate]_vars

\* ---- one running session and the clock -------------------------------------
\* the state start_capture leaves: the capture thread is about to open the
\* stream of a device that stays plugged in
InitVad ==
    /\ \E r \in Registrations :
          self = start_capture(EngineInit, NewThread, 1, r.callback,
                               r.error_callback)
    /\ pc = [t \in Threads |-> IF t = NewThread THEN "top" ELSE "none"]
    /\ stream_active = {}
    /\ failures = 0
    /\ spc = [t \in SecThreads |-> "none"]
    /\ sec_active = {}
    /\ sec_device = [t \in SecThreads |-> None]
    /\ cpc = "idle"
    /\ csave = NoSave
    /\ out = <<>>
    /\ devices = DeviceIds
    /\ platform \in {"win32", "unix"}
    /\ backend_available = TRUE
    /\ now = 0
    /\ hist = NoHist
    /\ transcription_engine = TranscriptionInit

VadThreadStep(t) ==
    \/ LoopExit(t)
    \/ \E ok \in BOOLEAN : OpenStream(t, ok)
    \/ WakeUp(t)
    \/ \E audio_buffer \in Deliveries, consecutive_errors \in ErrorRuns :
          UnixPoll(t, audio_buffer, consecutive_errors)
    \/ WinLoopTest(t)
    \/ \E audio_array \in Chunks : WinReadData(t, audio_array)
    \/ \E kind \in {"OSError", "Exception"},
          consecutive_errors \in ErrorRuns \ {0} :
          WinReadError(t, kind, consecutive_errors)
    \/ ThreadJoinPrimary(t)

NextVad ==
    \/ VadThreadStep(NewThread)
    \/ Tick

SpecVad == InitVad /\ [][NextVad]_vars


\* ---- the specification -------------------------------------------------------
ThreadStep(t) ==
    \/ LoopExit(t)
    \/ BackendMissing(t)
    \/ DeviceAbsent(t)
    \/ \E ok \in BOOLEAN : OpenStream(t, ok)
    \/ WakeUp(t)
    \/ \E audio_buffer \in Deliveries, consecutive_errors \in ErrorRuns :
          UnixPoll(t, audio_buffer, consecutive_errors)
    \/ WinLoopTest(t)
    \/ \E audio_array \in Chunks : WinReadData(t, audio_array)
    \/ \E kind \in {"OSError", "Exception"},
          consecutive_errors \in ErrorRuns \ {0} :
          WinReadError(t, kind, consecutive_errors)
    \/ ThreadJoinPrimary(t)

SecondaryStep(t) ==
    \/ \E ok \in BOOLEAN : SecondaryOpen(t, ok)
    \/ SecondaryLoopTest(t)
    \/ \E indata \in Chunks : SecondaryAudioCallback(t, indata)
    \/ \E audio_array \in Chunks : SecondaryReadData(t, audio_array)
    \/ SecondaryReadError(t)

DeviceLists == {<<>>} \cup {<<d>> : d \in DeviceIds}
                 \cup {<<a, b>> : a \in DeviceIds, b \in DeviceIds}

CallerStep(limit) ==
    \/ \E d \in DeviceIds, r \in Registrations :
          CallStartCapture(limit, d, r.callback, r.error_callback)
    \/ CallStopCapture
    \/ \E d \in DeviceIds : CallSetDevice(d)
    \/ CallHandleDisconnection
    \/ CallerJoinPrimary(limit)

EnvStep ==
    \/ \E d \in DeviceIds : Unplug(d)
    \/ \E d \in DeviceIds : Plug(d)

\* a single capture session: at most MaxThreads capture threads alive
Next ==
    \/ \E t \in Threads : ThreadStep(t)
    \/ CallerStep(MaxThreads)
    \/ EnvStep

Spec == Init /\ [][Next]_vars

\* the same with one more thread: a thread that outlived its stop_capture
\* runs beside the thread of the next session
NextOverlap ==
    \/ \E t \in Threads : ThreadStep(t)
    \/ CallerStep(MaxThreads + 1)
    \/ EnvStep

SpecOverlap == Init /\ [][NextOverlap]_vars

\* ---- sessions with two sources ------------------------------------------------
\* an idle engine whose devices stay plugged in
InitMulti ==
    /\ self = EngineInit
    /\ pc = [t \in Threads |-> "none"]
    /\ stream_active = {}
    /\ failures = 0
    /\ spc = [t \in SecThreads |-> "none"]
    /\ sec_active = {}
    /\ sec_device = [t \in SecThreads |-> None]
    /\ cpc = "idle"
    /\ csave = NoSave
    /\ out = <<>>
    /\ devices = DeviceIds
    /\ platform \in {"win32", "unix"}
    /\ backend_available = TRUE
    /\ now = 0
    /\ hist = NoHist
    /\ transcription_engine = TranscriptionInit

\* a capture thread whose device keeps delivering the same loud block
Loud == <<50>>

LiveThreadStep(t) ==
    \/ LoopExit(t)
    \/ OpenStream(t, TRUE)
    \/ \E audio_buffer \in {<<>>, <<Loud>>} : UnixPoll(t, audio_buffer, 0)
    \/ WinLoopTest(t)
    \/ WinReadData(t, Loud)

LiveSecondaryStep(t) ==
    \/ \E ok \in BOOLEAN : SecondaryOpen(t, ok)
    \/ SecondaryLoopTest(t)
    \/ SecondaryAudioCallback(t, Loud)
    \/ SecondaryReadData(t, Loud)
    \/ SecondaryReadError(t)

MultiLists == {<<>>, <<1>>, <<0, 1>>}

NextMulti ==
    \/ \E device_ids \in MultiLists, callback \in Callbacks :
          CallStartMultiSource(MaxThreads, device_ids, callback)
    \/ CallStopCapture
    \/ CallerJoinSecondary
    \/ CallerJoinPrimary(MaxThreads)
    \/ \E t \in Threads : LiveThreadStep(t)
    \/ \E t \in SecThreads : LiveSecondaryStep(t)

SpecMulti == InitMulti /\ [][NextMulti]_vars

\* the same sessions with a switch of the device
NextMultiSwitch ==
    \/ NextMulti
    \/ \E d \in DeviceIds : CallSetDevice(d)

SpecMultiSwitch == InitMulti /\ [][NextMultiSwitch]_vars

\* ---- one recorded multi-source session ------------------------------------
\* blocks of different lengths and contents; the samples are even, so that
\* the half of a sum of two samples is a whole number of the unit 0.01
MixChunks == {<<0>>, <<50>>, <<20, 40>>}

\* the state start_multi_source_capture([1, 0], on_chunk) leaves on a new
\* engine: both threads are about to open their streams
InitMix ==
    /\ self = start_multi_source(EngineInit, NewThread, 1, 1, 0, "cbA")
    /\ pc = [t \in Threads |-> IF t = NewThread THEN "top" ELSE "none"]
    /\ stream_active = {}
    /\ failures = 0
    /\ spc = [t \in SecThreads |-> IF t = 1 THEN "start" ELSE "none"]
    /\ sec_active = {}
    /\ sec_device = [t \in SecThreads |-> IF t = 1 THEN 0 ELSE None]
    /\ cpc = "idle"
    /\ csave = NoSave
    /\ out = <<>>
    /\ devices = DeviceIds
    /\ platform \in {"win32", "unix"}
    /\ backend_available = TRUE
    /\ now = 0
    /\ hist = [NoHist EXCEPT !.on = TRUE]
    /\ transcription_engine = TranscriptionInit

MixThreadStep(t) ==
    \/ OpenStream(t, TRUE)
    \/ \E audio_buffer \in {<<>>} \cup {<<a>> : a \in MixChunks} :
          UnixPoll(t, audio_buffer, 0)
    \/ WinLoopTest(t)
    \/ \E audio_array \in MixChunks : WinReadData(t, audio_array)

MixSecondaryStep(t) ==
    \/ \E ok \in BOOLEAN : SecondaryOpen(t, ok)
    \/ SecondaryLoopTest(t)
    \/ \E indata \in MixChunks : SecondaryAudioCallback(t, indata)
    \/ \E audio_array \in MixChunks : SecondaryReadData(t, audio_array)
    \/ SecondaryReadError(t)

NextMix ==
    \/ MixThreadStep(NewThread)
    \/ \E t \in SecThreads : MixSecondaryStep(t)

SpecMix == InitMix /\ [][NextMix]_vars

\* the same session on an engine whose earlier single-source session had
\* registered an error callback (stop_capture leaves error_callback in place,
\* start_multi_source_capture does not assign it)
InitRegistered ==
    /\ self = [start_multi_source(EngineInit, NewThread, 1, 1, 0, "cbA")
                  EXCEPT !.error_callback = "errA"]
    /\ pc = [t \in Threads |-> IF t = NewThread THEN "top" ELSE "none"]
    /\ stream_active = {}
    /\ failures = 0
    /\ spc = [t \in SecThreads |-> IF t = 1 THEN "start" ELSE "none"]
    /\ sec_active = {}
    /\ sec_device = [t \in SecThreads |-> IF t = 1 THEN 0 ELSE None]
    /\ cpc = "idle"
    /\ csave = NoSave
    /\ out = <<>>
    /\ devices = DeviceIds
    /\ platform \in {"win32", "unix"}
    /\ backend_available = TRUE
    /\ now = 0
    /\ hist = [NoHist EXCEPT !.on = TRUE]
    /\ transcription_engine = TranscriptionInit

SpecUnsupervised == InitRegistered /\ [][NextMix]_vars

\* the same session with a clock, a primary source that is silent or loud and
\* a secondary source that is loud
Silent == <<0>>

GatedThreadStep(t) ==
    \/ OpenStream(t, TRUE)
    \/ \E audio_buffer \in {<<>>, <<Silent>>, <<Loud>>} :
          UnixPoll(t, audio_buffer, 0)
    \/ WinLoopTest(t)
    \/ \E audio_array \in {Silent, Loud} : WinReadData(t, audio_array)

GatedSecondaryStep(t) ==
    \/ SecondaryOpen(t, TRUE)
    \/ SecondaryLoopTest(t)
    \/ SecondaryAudioCallback(t, Loud)
    \/ SecondaryReadData(t, Loud)
    \/ SecondaryReadError(t)

NextGated ==
    \/ GatedThreadStep(NewThread)
    \/ \E t \in SecThreads : GatedSecondaryStep(t)
    \/ Tick

SpecGated == InitMix /\ [][NextGated]_vars

\* ---- TranscriptionEngine: the overlapping windows -----------------------------
\* audio is a sequence of samples and times are counted in sample periods
\* (1 / sample_rate seconds), so that `len(audio) / self.sample_rate` is
\* Len(audio); a chunk of the model lasts chunk_duration sample periods
chunk_duration == 2
WinChunks == {<<10, 20>>, <<30, 40>>}
ModelNames == {"tiny", "base", "huge"}
SUPPORTED_MODELS == {"tiny", "base"}

\* a TranscriptionResult (lines 19-26) for the audio passed to transcribe;
\* confidence in 1/100
TranscriptionResult(audio, text, language, confidence, start_time, end_time) ==
    [kind |-> "result", by |-> Caller, cb |-> "none",
     msg |-> "process_with_overlap", arg |-> 1, data |-> audio,
     text |-> text, language |-> language, confidence |-> confidence,
     start_time |-> start_time, end_time |-> end_time]

\* `self.model.transcribe(tmp_path, ...)` was called for audio and returned
\* (recognized) or raised
RecognizeEvent(audio, recognized) ==
    Event("recognize", Caller, "none",
          IF recognized THEN "text" ELSE "Exception",
          IF recognized THEN 1 ELSE 0, audio)

\* a transcribe whose handler leaves the chunk index alone
transcribe_FailureKeepsIndex(e, audio, recognized) ==
    IF ~e.model
    THEN [e |-> e, raised |-> TRUE, result |-> <<>>, calls |-> <<>>]
    ELSE LET start_time == e.chunk_index * Len(audio)
             end_time == start_time + Len(audio)
         IN IF recognized
            THEN [e |-> [e EXCEPT !.chunk_index = @ + 1],
                  raised |-> FALSE,
                  result |-> <<TranscriptionResult(audio, "text", "en", 90,
                                                   start_time, end_time)>>,
                  calls |-> <<RecognizeEvent(audio, TRUE)>>]
            ELSE [e |-> e,
                  raised |-> FALSE,
                  result |-> <<TranscriptionResult(audio, "", "unknown", 0,
                                                   start_time, end_time)>>,
                  calls |-> <<RecognizeEvent(audio, FALSE)>>]

\* transcribe, lines 106-199.  recognized: Whisper returns a text in a
\* language, with segments of confidence 0.9 (lines 166-186); otherwise the
\* exception is caught and an empty result is returned (lines 188-199).
\* r.raised: RuntimeError("Model not loaded") leaves the call (lines 106-107).
transcribe(e, audio, recognized) ==
    IF ~e.model
    THEN [e |-> e, raised |-> TRUE, result |-> <<>>, calls |-> <<>>]
    ELSE LET start_time == e.chunk_index * Len(audio)
             end_time == start_time + Len(audio)
         IN IF recognized
            THEN [e |-> [e EXCEPT !.chunk_index = @ + 1],
                  raised |-> FALSE,
                  result |-> <<TranscriptionResult(audio, "text", "en", 90,
                                                   start_time, end_time)>>,
                  calls |-> <<RecognizeEvent(audio, TRUE)>>]
            ELSE [e |-> [e EXCEPT !.chunk_index = @ + 1],
                  raised |-> FALSE,
                  result |-> <<TranscriptionResult(audio, "", "unknown", 0,
                                                   start_time, end_time)>>,
                  calls |-> <<RecognizeEvent(audio, FALSE)>>]

\* process_with_overlap, lines 266-282; result <<>> is None
process_with_overlap(e, audio_chunk, recognized) ==
    LET buffer == Append(e.audio_buffer, audio_chunk)
        e1 == [e EXCEPT !.audio_buffer = buffer]
    IN IF Len(buffer) < 2
       THEN [e |-> e1, raised |-> FALSE, result |-> <<>>, calls |-> <<>>]
       ELSE LET combined == buffer[Len(buffer) - 1] \o buffer[Len(buffer)]
                r == transcribe(e1, combined, recognized)
            IN IF r.raised THEN r
               ELSE [r EXCEPT !.e.audio_buffer = <<buffer[Len(buffer)]>>]

\* reset_buffer, lines 284-288
reset_buffer(e) == [e EXCEPT !.audio_buffer = <<>>, !.chunk_index = 0]

\* change_model, lines 214-238; loaded: whisper.load_model succeeds
change_model(e, model_name, loaded) ==
    IF model_name \notin SUPPORTED_MODELS \/ model_name = e.model_name THEN e
    ELSE [e EXCEPT !.model = loaded, !.model_name = model_name]

capture == <<self, pc, stream_active, failures, secs, call, devices,
             platform, backend_available, now>>

\* application.py line 251: the next chunk is pushed
CallProcessWithOverlap(audio_chunk, recognized) ==
    /\ Len(hist.p) < MaxBlocks
    /\ LET r == process_with_overlap(transcription_engine, audio_chunk,
                                     recognized)
       IN /\ transcription_engine' = r.e
          /\ out' = IF r.raised
                    THEN <<Event("raise", Caller, "none", "RuntimeError", 0,
                                 <<>>)>>
                    ELSE IF r.result = <<>>
                    THEN <<Return("process_with_overlap", FALSE)>>
                    ELSE r.calls \o r.result
          /\ hist' = [hist EXCEPT !.p = Append(@, audio_chunk),
                                  !.m = @ \o EventData(r.result, "result")]
    /\ UNCHANGED capture

\* application.py line 174: a new session starts
CallResetBuffer ==
    /\ transcription_engine' = reset_buffer(transcription_engine)
    /\ out' = <<Return("reset_buffer", FALSE)>>
    /\ hist' = [hist EXCEPT !.p = <<>>, !.m = <<>>, !.s = hist.p]
    /\ UNCHANGED capture

\* application.py line 365: the user selects a model
CallChangeModel(model_name, loaded) ==
    /\ transcription_engine' =
          change_model(transcription_engine, model_name, loaded)
    /\ out' = IF model_name \notin SUPPORTED_MODELS
              THEN <<Event("raise", Caller, "none", "ValueError", 0, <<>>)>>
              ELSE IF transcription_engine'.model_name
                         # transcription_engine.model_name /\ ~loaded
              THEN <<Event("raise", Caller, "none", "RuntimeError", 0, <<>>)>>
              ELSE <<>>
    /\ UNCHANGED <<capture, hist>>

NextWindow ==
    \/ \E audio_chunk \in WinChunks, recognized \in BOOLEAN :
          CallProcessWithOverlap(audio_chunk, recognized)
    \/ CallResetBuffer
    \/ \E model_name \in ModelNames, loaded \in BOOLEAN :
          CallChangeModel(model_name, loaded)

\* a new transcription engine beside an idle capture engine
InitWindow ==
    /\ self = EngineInit
    /\ pc = [t \in Threads |-> "none"]
    /\ stream_active = {}
    /\ failures = 0
    /\ spc = [t \in SecThreads |-> "none"]
    /\ sec_active = {}
    /\ sec_device = [t \in SecThreads |-> None]
    /\ cpc = "idle"
    /\ csave = NoSave
    /\ out = <<>>
    /\ devices = DeviceIds
    /\ platform = "unix"
    /\ backend_available = TRUE
    /\ now = 0
    /\ hist = NoHist
    /\ transcription_engine = TranscriptionInit

SpecWindow == InitWindow /\ [][NextWindow]_vars

\* ---- detect_device_changes ----------------------------------------------------
\* a test that takes device 0 for no device
detect_device_changes_Truthy(e) ==
    IF e.current_device_id = None \/ e.current_device_id = 0 THEN FALSE
    ELSE ~check_device_available(e.current_device_id)

\* lines 733-736
detect_device_changes(e) ==
    IF e.current_device_id = None THEN FALSE
    ELSE ~check_device_available(e.current_device_id)

CallDetectDeviceChanges ==
    /\ cpc = "idle"
    /\ out' = <<Return("detect_device_changes", detect_device_changes(self))>>
    /\ UNCHANGED <<self, pc, stream_active, failures, secs, call, env>>

\* a capture thread whose device delivers until it is unplugged
PluggedThreadStep(t) ==
    \/ LoopExit(t)
    \/ BackendMissing(t)
    \/ DeviceAbsent(t)
    \/ OpenStream(t, TRUE)
    \/ \E audio_buffer \in {<<>>, <<Loud>>} : UnixPoll(t, audio_buffer, 0)
    \/ WinLoopTest(t)
    \/ WinReadData(t, Loud)
    \/ ThreadJoinPrimary(t)

NextDetect ==
    \/ \E d \in DeviceIds, r \in Registrations :
          CallStartCapture(MaxThreads, d, r.callback, r.error_callback)
    \/ CallStopCapture
    \/ \E d \in DeviceIds : CallSetDevice(d)
    \/ CallerJoinPrimary(MaxThreads)
    \/ CallDetectDeviceChanges
    \/ \E t \in Threads : PluggedThreadStep(t)
    \/ EnvStep

SpecDetect == Init /\ [][NextDetect]_vars

\* ---- sessions that are started and stopped, with fair capture threads -------
\* Every capture thread is an operating system thread: it is scheduled again
\* and again, and its device reads, its delays and its callbacks return.  The
\* application is free to make no further call.
CancelThreadStep(t) ==
    \/ LoopExit(t)
    \/ BackendMissing(t)
    \/ DeviceAbsent(t)
    \/ \E ok \in BOOLEAN : OpenStream(t, ok)
    \/ WakeUp(t)
    \/ \E audio_buffer \in {<<>>, <<Loud>>},
          consecutive_errors \in {0, max_consecutive_errors} :
          UnixPoll(t, audio_buffer, consecutive_errors)
    \/ WinLoopTest(t)
    \/ WinReadData(t, Loud)
    \/ \E kind \in {"OSError", "Exception"},
          consecutive_errors \in {1, max_consecutive_errors} :
          WinReadError(t, kind, consecutive_errors)
    \/ ThreadJoinPrimary(t)

NextCancel ==
    \/ \E d \in DeviceIds : CallStartCapture(MaxThreads, d, "cbA", "errA")
    \/ CallStopCapture
    \/ CallerJoinPrimary(MaxThreads)
    \/ \E t \in Threads : CancelThreadStep(t)

\* the steps a thread takes on its own once it is scheduled: the loop tests,
\* the end of the reconnection delay, a pass of the polling loop
FairThreads ==
    \A t \in Threads :
        /\ WF_vars(LoopExit(t))
        /\ WF_vars(WakeUp(t))
        /\ WF_vars(WinLoopTest(t))
        /\ WF_vars(UnixPoll(t, <<>>, 0))

\* a device read returns (with a block or with an error) and so does a join
\* (it has a timeout of 2 seconds, or raises)
CallsReturn == \A t \in Threads : []<>(pc[t] \notin {"reading", "join_pri"})

SpecCancel == Init /\ [][NextCancel]_vars /\ FairThreads /\ CallsReturn

\* ---- sessions whose device is switched ---------------------------------------
NextSwitch ==
    \/ NextCancel
    \/ \E d \in DeviceIds : CallSetDevice(d)

SpecSwitch == Init /\ [][NextSwitch]_vars

\* ---- properties --------------------------------------------------------------
HasEvent(o, kind, by, msg) ==
    \E i \in DOMAIN o : o[i].kind = kind /\ o[i].by = by /\ o[i].msg = msg

Ended(t) == pc[t] \in {"none", "done", "crashed"}

\* the application completes a call in this step (every call that starts a
\* thread does); in any other step the threads keep their positions
CallReturns == \E i \in DOMAIN out' : out'[i].kind = "return"

\* C1: with max_attempts = 5 the 5th consecutive failure of the capture loop
\* (no successful open in between) is terminal: the session is Failed
\* (is_capturing false) and no thread waits to retry.
C1_FifthFailureIsTerminal ==
    failures = max_reconnect_attempts =>
        /\ ~self.is_capturing
        /\ \A t \in Threads : pc[t] \notin {"sleeping", "top"}

\* C2: when stop_capture returns on a capturing session, the capture thread
\* it joined has terminated.
C2_StopJoinsThread ==
    HasEvent(out, "return", Caller, "stop_capture") /\ ~self.is_capturing
       /\ self.capture_thread # None
    => Ended(self.capture_thread)

\* C3: at most one thread executes the primary read loop: while the stop flag
\* is clear, no two threads are in the platform read loop.
C3_OneReadLoop ==
    ~self.stop_event =>
        Cardinality({t \in Threads : pc[t] \in {"streaming", "reading"}}) <= 1

\* C4: start_capture with a device id the enumerator does not list returns
\* false (so a start_capture that returned true was given a listed device).
C4_UnlistedDeviceRejected ==
    \A i \in DOMAIN out :
        (out[i].kind = "return" /\ out[i].msg = "start_capture"
           /\ out[i].arg = 1)
        => check_device_available(out[i].data[1])

\* C5: a capture thread whose availability check found the device absent
\* (it is in the disconnection handler with no stream open) goes straight to
\* the terminal path: it ends, the session is not capturing, and it emits no
\* reconnection notice and waits no reconnection delay.
C5_AbsentDeviceIsTerminal ==
    [][\A t \in Threads :
         (pc[t] = "join_pri" /\ t \notin stream_active /\ pc'[t] # "join_pri"
            /\ ~CallReturns)
         => /\ pc'[t] = "done"
            /\ ~self'.is_capturing
            /\ ~HasEvent(out', "print", t, "Attempting to reconnect")]_vars

\* C6: handle_device_disconnection on a capturing session leaves the session
\* non-running, whether the application or the capture thread itself calls
\* it: when the handler is left, is_capturing is false.
C6_DisconnectionStopsSession ==
    [][/\ (cpc = "join_pri" /\ csave.op = "handle_device_disconnection"
             /\ cpc' = "idle") => ~self'.is_capturing
       /\ \A t \in Threads :
            (pc[t] = "join_pri" /\ pc'[t] \notin {"join_pri", "done"}
               /\ ~CallReturns)
            => ~self'.is_capturing]_vars

\* thread t entered the handler of _capture_loop in this step
Caught(t) == HasEvent(out', "print", t, "Error in capture loop")

\* C7: when a capture thread enters the handler with the reconnection budget
\* used up, the step reports the terminal failure (to on_error when one is
\* registered), clears is_capturing and ends that thread without crashing it;
\* a thread that has ended makes no callback, prints nothing and opens no
\* stream.
C7_ExhaustedIsFinal ==
    [][\A t \in Threads :
         /\ (Caught(t) /\ self.reconnect_attempts >= max_reconnect_attempts)
            => /\ HasEvent(out', "print", t,
                           "Maximum reconnection attempts reached")
               /\ self.error_callback # "none"
                  => HasEvent(out', "on_error", t,
                              "Maximum reconnection attempts reached")
               /\ ~self'.is_capturing
               /\ pc'[t] = "done"
               /\ ~HasEvent(out', "print", t, "Attempting to reconnect")
         /\ (Ended(t) /\ ~CallReturns)
            => /\ \A i \in DOMAIN out' : out'[i].by # t
               /\ t \in stream_active' => t \in stream_active]_vars

C7_Witness ==
    \E t \in Threads :
        /\ pc[t] = "done"
        /\ ~self.is_capturing
        /\ self.reconnect_attempts = max_reconnect_attempts
        /\ HasEvent(out, "on_error", t, "Maximum reconnection attempts reached")

C9_StartWhileCapturing ==
    [][\A i \in DOMAIN out' :
         (out'[i].kind = "return" /\ out'[i].msg = "start_capture"
            /\ self.is_capturing)
         => /\ out'[i].arg = 0
            /\ self' = self
            /\ pc' = pc
            /\ stream_active' = stream_active]_vars

C9_Witness ==
    /\ self.is_capturing
    /\ Len(out) = 1
    /\ out[1].kind = "return" /\ out[1].msg = "start_capture"
    /\ out[1].arg = 0
    /\ out[1].cb # self.callback
    /\ out[1].data[1] # self.current_device_id
    /\ self.capture_thread # None /\ Alive(self.capture_thread)

\* the session identity as stop_capture leaves it
Stopped(e) ==
    /\ ~e.is_capturing
    /\ e.current_device_id = None
    /\ ~e.is_paused
    /\ e.silence_start_time = None
    /\ e.callback = "none"
    /\ e.primary_buffer = <<>>
    /\ e.secondary_buffer = <<>>

\* a step in which the application neither makes nor completes a call and
\* the set of devices stays as it is: a step of a capture thread
ThreadActs ==
    /\ cpc = "idle" /\ cpc' = "idle"
    /\ devices' = devices
    /\ \A i \in DOMAIN out' : out'[i].kind # "return"

\* C10: once stop_capture has reset the session identity (not capturing, no
\* device id, not paused, no silence timer, no callback, empty mixer queues),
\* no step of a capture thread changes any of these fields.
C10_ResetStays ==
    [][(Stopped(self) /\ ThreadActs) => Stopped(self')]_vars

\* C11: a stop_capture called while is_capturing is false returns at once:
\* the engine (stop flag and current_device_id included), the threads, the
\* streams and the application's position are unchanged, so nothing is joined.
C11_StopWhenIdle ==
    [][(cpc = "idle" /\ ~self.is_capturing
          /\ \/ HasEvent(out', "return", Caller, "stop_capture")
             \/ cpc' # "idle" /\ csave'.op = "stop_capture")
       => /\ out' = <<Return("stop_capture", FALSE)>>
          /\ self' = self
          /\ pc' = pc
          /\ stream_active' = stream_active
          /\ cpc' = "idle"
          /\ secs' = secs]_vars

C11_Witness ==
    /\ out = <<Return("stop_capture", FALSE)>>
    /\ ~self.is_capturing
    /\ self.current_device_id # None
    /\ ~self.stop_event

\* C12: set_device(d) while is_capturing is false sets current_device_id to
\* d, changes nothing else and starts no thread; while capturing it saves the
\* callback and stops, and when it returns the session is capturing device d
\* with the saved callback on a newly started thread.
C12_SetDevice ==
    [][/\ (cpc = "idle" /\ ~self.is_capturing
             /\ HasEvent(out', "return", Caller, "set_device"))
          => /\ Len(out') = 1
             /\ self' = [self EXCEPT !.current_device_id = out'[1].data[1]]
             /\ pc' = pc /\ stream_active' = stream_active /\ cpc' = "idle"
       /\ (cpc = "idle" /\ cpc' # "idle" /\ csave'.op = "set_device")
          => /\ self.is_capturing
             /\ csave'.saved_callback = self.callback
             /\ self'.stop_event
       /\ (cpc = "join_pri" /\ csave.op = "set_device" /\ cpc' = "idle")
          => /\ self'.is_capturing
             /\ self'.current_device_id = csave.device_id
             /\ self'.callback = csave.saved_callback
             /\ self'.callback # "none"
             /\ ~self'.stop_event
             /\ self'.capture_thread = NewThread
             /\ pc'[NewThread] = "top"]_vars

C12_Witness ==
    /\ HasEvent(out, "return", Caller, "set_device")
    /\ self.is_capturing
    /\ self.callback = "cbB"
    /\ self.current_device_id = 0
    /\ self.error_callback = "none"
    /\ pc[NewThread] = "top"

\* C13: a call of _should_pause_on_silence with level l, threshold t and
\* silence timer s at time `now`: l < t and no timer, the timer is set to now
\* and the result is False; l < t and now - s > 3, the result is True; l >= t,
\* the result is False and the timer is cleared; the result is True in no
\* other case, and no other field changes.
C13_SilenceGate ==
    [][HasEvent(out', "return", Caller, "_should_pause_on_silence")
       => LET l == self.current_audio_level
              t == self.vad_threshold
              s == self.silence_start_time
              val == out'[1].arg = 1
          IN /\ (l < t /\ s = None)
                => ~val /\ self' = [self EXCEPT !.silence_start_time = now]
             /\ (l < t /\ s # None /\ now - s > 3) => val /\ self' = self
             /\ l >= t
                => ~val /\ self' = [self EXCEPT !.silence_start_time = None]
             /\ val => (l < t /\ s # None /\ now - s > 3)
             /\ ~val /\ l < t /\ s # None => self' = self]_vars

C13_Witness ==
    /\ out = <<Return("_should_pause_on_silence", TRUE)>>
    /\ self.current_audio_level < self.vad_threshold
    /\ now - self.silence_start_time = 4

\* the block thread t read in this step, and whether it was passed to on_chunk
ReadBy(t) == Len(out') >= 1 /\ out'[1] = ReadEvent(t, out'[1].data)
Forwarded(t) ==
    \E i \in DOMAIN out' : out'[i] = ChunkEvent(t, self.callback, out'[1].data)

\* C14: in a running session a block whose level is below the threshold and
\* that is read more than 3 seconds after the silence timer was started is
\* not passed to on_chunk and the session is paused; every other block read
\* (silent but within the 3 seconds, or at or above the threshold, also when
\* the session was paused) is passed to on_chunk and leaves the session not
\* paused; on_chunk is called for nothing else.
C14_PausedNotForwarded ==
    [][\A t \in Threads :
         /\ (ReadBy(t) /\ self.is_capturing)
            => LET l == update_audio_level(self, out'[1].data).current_audio_level
                   s == self.silence_start_time
                   long == l < self.vad_threshold /\ s # None /\ now - s > 3
               IN IF long
                  THEN ~Forwarded(t) /\ self'.is_paused /\ Len(out') = 1
                  ELSE Forwarded(t) /\ ~self'.is_paused /\ Len(out') = 2
         /\ (\E i \in DOMAIN out' : out'[i].kind = "on_chunk" /\ out'[i].by = t)
            => ReadBy(t) /\ ~self'.is_paused]_vars

C14_Witness ==
    /\ self.is_capturing /\ self.is_paused
    /\ Len(out) = 1 /\ out[1].kind = "read"
    /\ now - self.silence_start_time > 3

\* C15: start_multi_source_capture with an empty list returns False and
\* starts nothing; with one id it does what start_capture does on that id
\* with the given callback (False and no change on a capturing session,
\* otherwise True, the id, the callback, no error callback, a new capture
\* thread and no secondary thread); with two ids on an idle session it returns
\* True with is_capturing set, current_device_id the first id and
\* secondary_device_id the second; on a capturing session it returns False
\* and changes nothing.
C15_MultiSourceStart ==
    [][\A ids \in MultiLists, cb \in Callbacks :
         out' \in {<<ReturnMulti(ids, cb, TRUE)>>,
                   <<ReturnMulti(ids, cb, FALSE)>>}
         => LET val == out'[1].arg = 1
            IN /\ Len(ids) = 0
                    => ~val /\ UNCHANGED <<self, pc, stream_active, secs>>
               /\ Len(ids) >= 1 /\ self.is_capturing
                    => ~val /\ UNCHANGED <<self, pc, stream_active, secs>>
               /\ Len(ids) = 1 /\ ~self.is_capturing
                    => /\ val
                       /\ self'.is_capturing
                       /\ self'.current_device_id = ids[1]
                       /\ self'.callback = cb
                       /\ self'.error_callback = "none"
                       /\ self'.reconnect_attempts = 0
                       /\ ~self'.stop_event
                       /\ self'.capture_thread = NewThread
                       /\ pc'[NewThread] = "top"
                       /\ self'.secondary_device_id = self.secondary_device_id
                       /\ UNCHANGED secs
               /\ Len(ids) = 2 /\ ~self.is_capturing
                    => /\ val
                       /\ self'.is_capturing
                       /\ self'.current_device_id = ids[1]
                       /\ self'.secondary_device_id = ids[2]
                       /\ pc'[NewThread] = "top"
                       /\ self'.secondary_thread # None
                       /\ spc'[self'.secondary_thread] = "start"
                       /\ sec_device'[self'.secondary_thread] = ids[2]]_vars

C15_Witness ==
    /\ out = <<ReturnMulti(<<0, 1>>, "cbA", TRUE)>>
    /\ self.is_capturing
    /\ self.current_device_id = 0
    /\ self.secondary_device_id = 1
    /\ self.callback = MixOf("cbA")

\* m is the sample-wise mean of p and s, cut to the shorter of the two
IsMixOf(m, p, s) ==
    /\ Len(m) = Min(Len(p), Len(s))
    /\ \A i \in 1..Len(m) : 2 * m[i] = p[i] + s[i]

\* the capture thread passed a mixed block to the callback in this step
MixEmitted == hist'.m # hist.m

\* the block primary_callback appended in this step, if any
Enqueued == EventData(out', "enqueue")

\* C16: in a multi-source session, under every interleaving of the two source
\* threads, the k-th block delivered to on_chunk is the mix of the k-th block
\* the primary source enqueued and the k-th block the secondary source
\* enqueued, and a mix is emitted only in a step in which both queues are
\* non-empty when the mix is attempted.
C16_FifoPairing ==
    /\ [](/\ Len(hist.m) <= Min(Len(hist.p), Len(hist.s))
          /\ \A k \in 1..Len(hist.m) :
                IsMixOf(hist.m[k], hist.p[k], hist.s[k]))
    /\ [][MixEmitted => /\ self.secondary_buffer # <<>>
                        /\ self.primary_buffer \o Enqueued # <<>>
                        /\ Len(hist'.m) = Len(hist.m) + 1]_vars

C16_Witness ==
    /\ Len(hist.m) = 2
    /\ hist.p[1] # hist.p[2]
    /\ hist.s[1] # hist.s[2]
    /\ hist.p[1] # hist.s[1]
    /\ Len(hist.p) = 3
    /\ self.primary_buffer = <<hist.p[3]>>

\* the part of sequence q after its first n elements
Rest(q, n) == SubSeq(q, n + 1, Len(q))

\* C17: while a multi-source session runs no enqueued block is dropped: for
\* each source the blocks it enqueued are the blocks already mixed followed by
\* the blocks in its queue (so the number enqueued is the number of mixes
\* emitted plus the length of the queue), and a mix attempt that finds the
\* secondary queue empty leaves the new block queued, removes nothing and
\* reports no error.
C17_NoChunkDropped ==
    /\ [](/\ self.primary_buffer = Rest(hist.p, Len(hist.m))
          /\ self.secondary_buffer = Rest(hist.s, Len(hist.m))
          /\ Len(hist.p) = Len(hist.m) + Len(self.primary_buffer)
          /\ Len(hist.s) = Len(hist.m) + Len(self.secondary_buffer))
    /\ [][Enqueued # <<>> /\ self.secondary_buffer = <<>>
            => /\ self'.primary_buffer = self.primary_buffer \o Enqueued
               /\ self'.secondary_buffer = <<>>
               /\ ~MixEmitted
               /\ \A i \in 1..Len(out') :
                     out'[i].kind \in {"read", "acquire", "enqueue", "release"}
               /\ failures' = failures
               /\ self'.is_capturing]_vars

C17_Witness ==
    /\ Len(hist.p) = 3
    /\ Len(hist.m) = 1
    /\ Len(self.primary_buffer) = 2
    /\ self.secondary_buffer = <<>>
    /\ out = <<ReadEvent(NewThread, hist.p[3]),
               Acquire(NewThread, "buffer_lock"),
               EnqueueEvent(NewThread, hist.p[3]),
               Release(NewThread, "buffer_lock")>>

\* every sample of block x is the constant a
Filled(x, a) == \A i \in 1..Len(x) : x[i] = a

\* C18: one mix step with both queues non-empty removes exactly the head
\* block of each queue and delivers one block whose length is the shorter of
\* the two lengths and whose i-th sample is (p[i] + s[i]) / 2; for blocks
\* filled with constants a and b the result is filled with (a + b) / 2.
C18_MixStep ==
    [][Enqueued # <<>> /\ self.secondary_buffer # <<>>
         => LET queue == self.primary_buffer \o Enqueued
                p == Head(queue)
                s == Head(self.secondary_buffer)
                delivered == EventData(out', "on_chunk")
            IN /\ self'.primary_buffer = Tail(queue)
               /\ self'.secondary_buffer = Tail(self.secondary_buffer)
               /\ Len(delivered) = 1
               /\ Len(delivered[1]) = Min(Len(p), Len(s))
               /\ \A i \in 1..Len(delivered[1]) :
                     2 * delivered[1][i] = p[i] + s[i]
               /\ \A a \in {p[1]}, b \in {s[1]} :
                     Filled(p, a) /\ Filled(s, b)
                        => Filled(delivered[1], (a + b) \div 2)
                           /\ 2 * ((a + b) \div 2) = a + b]_vars

C18_Witness ==
    /\ Len(out) = 5
    /\ out[4] = ChunkEvent(NewThread, "cbA", <<35>>)
    /\ out[3] = EnqueueEvent(NewThread, <<20, 40>>)
    /\ hist.s[Len(hist.m)] = <<50>>
    /\ Len(self.primary_buffer) = 1

\* a chunk was pushed into the window buffer in this step
Pushed == Len(hist'.p) = Len(hist.p) + 1

\* the results process_with_overlap returned in this step
Returned == SelectSeq(out', LAMBDA ev : ev.kind = "result")

\* C19: for the chunks c1..cn pushed since construction or the last reset,
\* the first push returns None and the k-th push (k >= 2) returns the window
\* c(k-1) \o c(k), so that n - 1 windows were returned and the chunk index is
\* n - 1; after every push the buffer holds exactly the newest chunk, and it
\* never holds more than two chunks.
C19_WindowPerPush ==
    /\ [][Pushed
            => LET n == Len(hist'.p)
               IN /\ n = 1 => out' = <<Return("process_with_overlap", FALSE)>>
                  /\ n >= 2 => /\ Len(Returned) = 1
                               /\ Returned[1].data
                                     = hist'.p[n - 1] \o hist'.p[n]
                  /\ Len(hist'.m) = n - 1
                  /\ transcription_engine'.chunk_index = n - 1
                  /\ transcription_engine'.audio_buffer = <<hist'.p[n]>>]_vars
    /\ [](Len(transcription_engine.audio_buffer) <= 2)

\* C20: the window at 0-based position index of the output has
\* start_time = index * chunk_duration and
\* end_time = start_time + window_length / sample_rate; for c0, c1, c2 of
\* duration d the windows are (c0, c1) from 0 to 2d and (c1, c2) from d to 3d,
\* so consecutive windows overlap by one chunk duration.
C20_WindowTimestamps ==
    [][Pushed /\ Returned # <<>>
         => LET index == Len(hist'.m) - 1
                window == Returned[1]
            IN /\ window.start_time = index * chunk_duration
               /\ window.end_time = window.start_time + Len(window.data)
               /\ window.end_time = (index + 2) * chunk_duration]_vars

\* reset_buffer returned in this step
ResetDone == out' = <<Return("reset_buffer", FALSE)>>

\* C21: reset_buffer, after any sequence of pushes, empties the window buffer
\* and sets the chunk index to 0; the next push returns None and the push
\* after it returns a window built only from the chunks pushed after the
\* reset, with the timestamps of a fresh stream (from 0 to the length of the
\* window).
C21_ResetStartsAfresh ==
    [][/\ ResetDone => /\ transcription_engine'.audio_buffer = <<>>
                       /\ transcription_engine'.chunk_index = 0
       /\ Pushed /\ hist.s # <<>> /\ Len(hist'.p) = 1
            => /\ out' = <<Return("process_with_overlap", FALSE)>>
               /\ transcription_engine'.audio_buffer = hist'.p
       /\ Pushed /\ hist.s # <<>> /\ Len(hist'.p) = 2
            => /\ Len(Returned) = 1
               /\ Returned[1].data = hist'.p[1] \o hist'.p[2]
               /\ Returned[1].start_time = 0
               /\ Returned[1].end_time = 2 * chunk_duration]_vars

\* the recognitions of this step that raised
FailedRecognitions ==
    SelectSeq(out', LAMBDA ev : ev.kind = "recognize" /\ ev.arg = 0)

\* the recognitions of this step, failed or not
Recognitions == SelectSeq(out', LAMBDA ev : ev.kind = "recognize")

C23_DetectDeviceChanges ==
    /\ [][\A val \in BOOLEAN :
            out' = <<Return("detect_device_changes", val)>>
            => /\ val = (/\ self.current_device_id # None
                         /\ self.current_device_id \notin list_devices)
               /\ self.current_device_id = None => ~val
               /\ UNCHANGED <<self, pc, stream_active, secs, call, env>>]_vars
    /\ []((\E i \in DOMAIN out : out[i] = Return("stop_capture", TRUE))
            => /\ self.current_device_id = None
               /\ ~detect_device_changes(self))

C23_Witness ==
    /\ out = <<Return("detect_device_changes", TRUE)>>
    /\ self.current_device_id = 0
    /\ self.is_capturing
    /\ backend_available
    /\ 0 \notin devices

\* thread t took the terminal failure path of _capture_loop in this step
Exhausted(t) ==
    HasEvent(out', "print", t, "Maximum reconnection attempts reached")

\* C24: a successful stream open resets the reconnect attempt counter to
\* zero, so the budget counts only failures with no successful open between
\* them: the terminal failure path is taken only after at least 5 failures
\* since the last successful open, and a thread whose stream is open when it
\* fails is sent to the reconnection delay with the counter at 1, however
\* often that happened before.
C24_OpenResetsBudget ==
    [][\A t \in Threads :
         ~CallReturns
         => /\ t \notin stream_active /\ t \in stream_active'
                 => self'.reconnect_attempts = 0
            /\ Exhausted(t)
                 => /\ failures >= max_reconnect_attempts
                    /\ t \notin stream_active
            /\ Caught(t) /\ t \in stream_active
                 => /\ ~Exhausted(t)
                    /\ self'.reconnect_attempts = 1
                    /\ pc'[t] = "sleeping"]_vars

C24_Witness == \E t \in Threads : pc[t] = "sleeping" /\ self.reconnect_attempts = 1 /\ self.stop_event /\ t \notin stream_active /\ HasEvent(out, "print", t, "Attempting to reconnect") /\ ~HasEvent(out, "print", t, "Maximum reconnection attempts reached")

\* the locks thread o[i].by holds when it makes the i-th call of the step
LocksHeld(o, i) ==
    {l \in {"buffer_lock", "audio_lock"} :
        \E j \in 1..(i - 1) :
            /\ o[j] = Acquire(o[i].by, l)
            /\ \A k \in (j + 1)..(i - 1) : o[k] # Release(o[i].by, l)}

\* C25: every change of the two chunk queues (the append by the primary
\* callback, the append by the secondary thread, the pop by the mixer, the
\* clear by stop_capture) is made while the shared queue lock buffer_lock is
\* held, and that lock is not held while on_chunk runs or while a block is read
\* from a device.
C25_QueueLockDiscipline ==
    \A i \in DOMAIN out :
        /\ out[i].kind \in {"enqueue", "enqueue_secondary", "clear"}
              => "buffer_lock" \in LocksHeld(out, i)
        /\ out[i].kind \in {"on_chunk", "read"}
              => "buffer_lock" \notin LocksHeld(out, i)

\* thread t makes a call of the given kind in this step
Calls(t, kinds) == \E i \in DOMAIN out' : out'[i].by = t /\ out'[i].kind \in kinds

SwitchReturns == cpc = "join_pri" /\ csave.op = "set_device" /\ cpc' = "idle"

\* start_capture returns True in this step
StartReturns ==
    \E i \in DOMAIN out' :
        /\ out'[i].kind = "return" /\ out'[i].msg = "start_capture"
        /\ out'[i].arg = 1

\* C27: when set_device returns on a session that was capturing, the new
\* session runs with the saved on_chunk callback and with no error callback;
\* error_callback then stays None until the next start_capture, and as long
\* as it is None no failure, reconnection notice or terminal failure is
\* passed to any error callback (they are printed only).
C27_SwitchDropsErrorCallback ==
    [][/\ SwitchReturns
          => /\ self'.is_capturing
             /\ self'.callback = csave.saved_callback
             /\ self'.error_callback = "none"
       /\ (self.error_callback = "none" /\ ~StartReturns /\ ~SwitchReturns)
          => /\ self'.error_callback = "none"
             /\ \A i \in DOMAIN out' : out'[i].kind # "on_error"]_vars

C27_Witness == self.is_capturing /\ self.callback = "cbA" /\ self.error_callback = "none" /\ self.reconnect_attempts = 2 /\ HasEvent(out, "print", NewThread, "Attempting to reconnect") /\ \A i \in DOMAIN out : out[i].kind # "on_error"

\* C28: a secondary thread whose stream cannot be opened ends at once; from
\* then on it stays ended (no reconnection is attempted, the attempt counter
\* is not touched), is_capturing stays true, nothing is added to the secondary
\* queue, and once that queue is empty no block is delivered to on_chunk
\* while every block the primary source forwards stays in the primary queue;
\* no error callback is invoked at any point.
C28_SecondaryUnsupervised ==
    /\ [](\A i \in DOMAIN out : out[i].kind # "on_error")
    /\ [][\A t \in SecThreads :
            /\ (spc[t] = "start" /\ t \notin sec_active' /\ spc' # spc)
               => /\ spc'[t] = "done"
                  /\ self'.is_capturing
                  /\ self'.reconnect_attempts = self.reconnect_attempts
            /\ (spc[t] = "start" /\ spc' = spc)
               => self'.reconnect_attempts = self.reconnect_attempts
            /\ spc[t] = "done"
               => /\ spc'[t] = "done"
                  /\ self'.is_capturing
                  /\ hist'.s = hist.s
                  /\ self.secondary_buffer = <<>>
                     => /\ ~MixEmitted
                        /\ self'.secondary_buffer = <<>>
                        /\ self'.primary_buffer
                             = self.primary_buffer \o Enqueued]_vars

C28_Witness == spc[1] = "done" /\ self.is_capturing /\ ~self.secondary_stop_event /\ self.error_callback = "errA" /\ self.secondary_buffer = <<>> /\ Len(self.primary_buffer) = 2 /\ hist.m = <<>>

\* the secondary thread appended a block in this step
SecondaryArrived == hist'.s # hist.s

\* what C29 says of the gate, of the secondary appends and of the mixes: a
\* secondary block is appended whatever the pause state and leaves it alone;
\* a primary block that is read while the session ends up paused is neither
\* enqueued nor mixed; a mix is delivered only in a step that enqueues a
\* primary block, and then exactly one
GatingOnPrimaryOnly ==
    /\ SecondaryArrived
          => /\ Len(self'.secondary_buffer) = Len(self.secondary_buffer) + 1
             /\ self'.is_paused = self.is_paused
             /\ ~MixEmitted
    /\ (ReadBy(NewThread) /\ self'.is_paused)
          => Enqueued = <<>> /\ ~MixEmitted
    /\ MixEmitted
          => Len(Enqueued) = 1 /\ Len(hist'.m) = Len(hist.m) + 1

\* C29: in a multi-source session the gate acts on the primary source only
\* and a mix is delivered only with a forwarded primary block, at most one
\* per block; neither queue ever gets shorter.
C29_BacklogNeverShrinks ==
    [][/\ GatingOnPrimaryOnly
       /\ Len(self'.primary_buffer) >= Len(self.primary_buffer)
       /\ Len(self'.secondary_buffer) >= Len(self.secondary_buffer)]_vars

\* C29 (amended): the same, but only the primary queue never gets shorter;
\* the secondary queue loses its head block in every step that delivers a mix
\* (and in no other step), also when no secondary block arrived since the last
\* mix, so that a backlog of the secondary queue shrinks whenever the primary
\* source forwards more blocks than the secondary source delivers.
C29_PrimaryBacklogNeverShrinks ==
    [][/\ GatingOnPrimaryOnly
       /\ Len(self'.primary_buffer) >= Len(self.primary_buffer)
       /\ IF MixEmitted
          THEN /\ self'.secondary_buffer = Tail(self.secondary_buffer)
               /\ Len(self'.primary_buffer) = Len(self.primary_buffer)
          ELSE Len(self'.secondary_buffer) >= Len(self.secondary_buffer)]_vars

C29_Witness == self.is_paused /\ Len(self.secondary_buffer) = 2 /\ Len(self.primary_buffer) = 1 /\ \E i \in DOMAIN out : out[i].kind = "enqueue_secondary"

\* the session set_device left behind when it was called on a multi-source
\* session: capturing, on_chunk is the primary callback of the mixer, and
\* there is no secondary source
MixerWithoutSecondary ==
    /\ cpc = "idle"
    /\ self.is_capturing
    /\ IsMix(self.callback)
    /\ self.secondary_device_id = None

\* the consumer's on_chunk is invoked in this step
ConsumerInvoked ==
    \E i \in DOMAIN out' :
        out'[i].kind = "on_chunk" /\ out'[i].cb \in Callbacks

\* C30: when set_device returns on a multi-source session the secondary
\* source was told to stop, secondary_device_id is None and the new session
\* is a single-source capture whose on_chunk is the primary callback of the
\* mixer; as long as that session lasts no secondary block is appended,
\* every forwarded block is appended to the primary queue and stays there,
\* and the consumer's on_chunk is not invoked.
C30_SwitchEndsMixing ==
    [][/\ (SwitchReturns /\ IsMix(csave.saved_callback))
          => /\ self'.is_capturing
             /\ self'.callback = csave.saved_callback
             /\ self'.secondary_device_id = None
             /\ self'.secondary_stop_event
             /\ self'.primary_buffer = <<>> /\ self'.secondary_buffer = <<>>
       /\ MixerWithoutSecondary
          => /\ \A i \in DOMAIN out' : out'[i].kind # "enqueue_secondary"
             /\ ~ConsumerInvoked
             /\ (cpc' = "idle" /\ ~CallReturns)
                  => self'.primary_buffer = self.primary_buffer \o Enqueued]_vars
====
